---- MODULE Spec2Model ----
(***************************************************************************)
(* Contact wrench modelling (pymanoid/contact.py) and planar geometry      *)
(* (pymanoid/polygons.py).                                                 *)
(*                                                                         *)
(* Numbers are integers.  Vectors are tuples, matrices are tuples of rows. *)
(* Orientations are signed permutation matrices, so every product stays    *)
(* integral.  A contact's `friction` field is stored in units of sqrt(2):  *)
(* the code only ever uses mu = friction / sqrt(2), which is the stored    *)
(* integer.  Python's None is the empty tuple.                             *)
(***************************************************************************)
EXTENDS Integers, Sequences, FiniteSets, TLC

VARIABLES
    contacts,      \* ContactSet.contacts: the list object, shared with the caller
    nb_contacts,   \* ContactSet.nb_contacts
    feed,          \* the ContactFeed: contacts, cyclic, next_contact_id
    ret            \* the last query and what it returned

vars == <<contacts, nb_contacts, feed, ret>>

None == <<>>

\* `ret` before any query
NoResult == [op |-> "none"]

(***************************************************************************)
(* numpy / scipy primitives used by the code                               *)
(***************************************************************************)
RECURSIVE vdotTo(_, _, _)
vdotTo(u, v, n) == IF n = 0 THEN 0 ELSE u[n] * v[n] + vdotTo(u, v, n - 1)

\* the inner product of two vectors (the common lengths written out)
vdot(u, v) ==
    IF Len(u) = 3 THEN u[1] * v[1] + u[2] * v[2] + u[3] * v[3]
    ELSE IF Len(u) = 6
    THEN u[1] * v[1] + u[2] * v[2] + u[3] * v[3]
         + u[4] * v[4] + u[5] * v[5] + u[6] * v[6]
    ELSE vdotTo(u, v, Len(u))

\* dot(M, v) for a matrix M and a vector v
dot(M, v) == [i \in 1..Len(M) |-> vdot(M[i], v)]

transpose(M) == [j \in 1..Len(M[1]) |-> [i \in 1..Len(M) |-> M[i][j]]]

\* dot(A, B) for two matrices
matmul(A, B) ==
    LET Bt == transpose(B)
    IN  [i \in 1..Len(A) |-> [j \in 1..Len(Bt) |-> vdot(A[i], Bt[j])]]

\* A * B on ndarrays of equal shape: the element-wise product
times(A, B) == [i \in 1..Len(A) |-> [j \in 1..Len(A[i]) |-> A[i][j] * B[i][j]]]

neg(A) == [i \in 1..Len(A) |-> [j \in 1..Len(A[i]) |-> 0 - A[i][j]]]

vadd(u, v) == [k \in 1..Len(u) |-> u[k] + v[k]]

vsub(u, v) == [k \in 1..Len(u) |-> u[k] - v[k]]

zeros(n) == [k \in 1..n |-> 0]

zeros2(r, c) == [i \in 1..r |-> zeros(c)]

eye(n) == [i \in 1..n |-> [j \in 1..n |-> IF i = j THEN 1 ELSE 0]]

\* hstack([A, B]) for two matrices with the same number of rows
hstack(A, B) == [i \in 1..Len(A) |-> A[i] \o B[i]]

vstack(A, B) == A \o B

\* scipy.linalg.block_diag(A, B)
block_diag(A, B) ==
    vstack(hstack(A, zeros2(Len(A), Len(B[1]))),
           hstack(zeros2(Len(B), Len(A[1])), B))

\* hstack of a list of matrices (at least one)
RECURSIVE hstackAll(_)
hstackAll(Ms) ==
    IF Len(Ms) = 1 THEN Ms[1] ELSE hstack(Ms[1], hstackAll(Tail(Ms)))

\* numpy.cross(a, b)
cross(a, b) == << a[2] * b[3] - a[3] * b[2],
                  a[3] * b[1] - a[1] * b[3],
                  a[1] * b[2] - a[2] * b[1] >>

\* transformations.crossmat(v): the matrix of x |-> v x x
crossmat(v) == << << 0, 0 - v[3], v[2] >>,
                  << v[3], 0, 0 - v[1] >>,
                  << 0 - v[2], v[1], 0 >> >>

\* w[a:b] on a Python sequence (0-based, end-exclusive, clipped to the length)
slice(w, a, b) ==
    LET hi == IF b < Len(w) THEN b ELSE Len(w)
    IN  IF a >= hi THEN <<>> ELSE SubSeq(w, a + 1, hi)

\* the sequences over S of length at most n
RECURSIVE SeqsUpTo(_, _)
SeqsUpTo(S, n) ==
    IF n = 0 THEN { <<>> }
    ELSE LET shorter == SeqsUpTo(S, n - 1)
         IN  shorter \cup { Append(q, e) : q \in { t \in shorter : Len(t) = n - 1 },
                                          e \in S }

removeAt(q, i) == SubSeq(q, 1, i - 1) \o SubSeq(q, i + 1, Len(q))

(***************************************************************************)
(* Input domains                                                           *)
(***************************************************************************)
I3   == eye(3)
Rz90 == << << 0, -1, 0 >>, << 1, 0, 0 >>, << 0, 0, 1 >> >>

Rotations == {I3, Rz90}

Positions == { <<0, 0, 0>>, <<1, 2, 0>> }

\* points at which wrenches are taken
Points == { <<0, 0, 0>>, <<0, 1, 1>> }

Shapes == { <<2, 1>> }

Frictions == { 1 }

ez6 == <<0, 0, 1, 0, 0, 0>>

\* wrenches handed to set_wrench
Wrenches == { ez6, <<1, 0, 0, 0, 1, 0>> }

MaxContacts == 2

(***************************************************************************)
(* Contact                                                                 *)
(***************************************************************************)
\* Contact.__init__
Contact(shape, pos, R, friction) ==
    [ shape      |-> shape,
      p          |-> pos,
      R          |-> R,
      friction   |-> friction,
      is_managed |-> FALSE,
      wrench     |-> None ]

\* Contact.copy
copy(c) ==
    [ Contact(c.shape, c.p, c.R, c.friction) EXCEPT !.wrench = c.wrench ]

\* Contact.set_wrench
set_wrench(c, wrench) ==
    [ c EXCEPT !.is_managed = TRUE,
               !.wrench = dot(block_diag(c.R, c.R), wrench) ]

\* Contact.unset_wrench
unset_wrench(c) ==
    [ c EXCEPT !.is_managed = FALSE, !.wrench = None ]

\* Body.set_pos, as used by ContactFeed.duplicate_last_contact
set_pos(c, pos) == [ c EXCEPT !.p = pos ]

\* Contact.compute_grasp_matrix
compute_grasp_matrix(c, p) ==
    LET d  == vsub(c.p, p)
        x  == d[1]
        y  == d[2]
        z  == d[3]
        lowerLeft == << << 0, 0 - z, y >>,
                        << z, 0, 0 - x >>,
                        << 0 - y, x, 0 >> >>
        Rt == transpose(c.R)
    IN  vstack(hstack(Rt, zeros2(3, 3)),
               hstack(times(neg(Rt), lowerLeft), Rt))

\* Contact.wrench_at
wrench_at(c, point) ==
    IF c.wrench = None THEN None
    ELSE LET X_world_point ==
                 vstack(hstack(eye(3), eye(3)),
                        hstack(crossmat(point), eye(3)))
         IN  dot(X_world_point, c.wrench)

\* Contact.vertices (get_scaled_contact_area(1.)): T * [+-X, +-Y, 0, 1]
vertices(c) ==
    LET X == c.shape[1]
        Y == c.shape[2]
        v(a, b) == vadd(dot(c.R, <<a, b, 0>>), c.p)
    IN  << v(X, Y), v(X, 0 - Y), v(0 - X, 0 - Y), v(0 - X, Y) >>

\* Contact.force_inequalities, with mu = friction / sqrt(2)
force_inequalities(c) ==
    LET mu == c.friction
        hrep_local == << << -1, 0, 0 - mu >>,
                         << 1, 0, 0 - mu >>,
                         << 0, -1, 0 - mu >>,
                         << 0, 1, 0 - mu >> >>
    IN  matmul(hrep_local, transpose(c.R))

\* a bug force_rays could have: the rays point against the contact normal
force_rays_inward(c) ==
    LET mu == c.friction
    IN  << dot(c.R, <<mu, mu, -1>>),
           dot(c.R, <<mu, 0 - mu, -1>>),
           dot(c.R, <<0 - mu, mu, -1>>),
           dot(c.R, <<0 - mu, 0 - mu, -1>>) >>

\* Contact.force_rays
force_rays(c) ==
    LET mu == c.friction
    IN  << dot(c.R, <<mu, mu, 1>>),
           dot(c.R, <<mu, 0 - mu, 1>>),
           dot(c.R, <<0 - mu, mu, 1>>),
           dot(c.R, <<0 - mu, 0 - mu, 1>>) >>

\* Contact.force_span
force_span(c) == transpose(force_rays(c))

\* Contact.wrench_inequalities
wrench_inequalities(c) ==
    LET X  == c.shape[1]
        Y  == c.shape[2]
        mu == c.friction
        m  == 0 - mu
        s  == 0 - (X + Y) * mu
        local_cone ==
            << << -1, 0, m, 0, 0, 0 >>,
               << 1, 0, m, 0, 0, 0 >>,
               << 0, -1, m, 0, 0, 0 >>,
               << 0, 1, m, 0, 0, 0 >>,
               << 0, 0, 0 - Y, -1, 0, 0 >>,
               << 0, 0, 0 - Y, 1, 0, 0 >>,
               << 0, 0, 0 - X, 0, -1, 0 >>,
               << 0, 0, 0 - X, 0, 1, 0 >>,
               << 0 - Y, 0 - X, s, mu, mu, -1 >>,
               << 0 - Y, X, s, mu, m, -1 >>,
               << Y, 0 - X, s, m, mu, -1 >>,
               << Y, X, s, m, m, -1 >>,
               << Y, X, s, mu, mu, 1 >>,
               << Y, 0 - X, s, mu, m, 1 >>,
               << 0 - Y, X, s, m, mu, 1 >>,
               << 0 - Y, 0 - X, s, m, m, 1 >> >>
        tempGraspMatrix == compute_grasp_matrix(c, <<0, 0, 0>>)
    IN  matmul(local_cone, tempGraspMatrix)

\* Contact.wrench_span
wrench_span(c) ==
    LET vs == vertices(c)
        block(v) == matmul(vstack(eye(3), crossmat(vsub(v, c.p))), force_span(c))
    IN  hstackAll([k \in 1..4 |-> block(vs[k])])

(***************************************************************************)
(* ContactSet                                                              *)
(***************************************************************************)
\* the positions in `cs` of the contacts that satisfy the test, in order
RECURSIVE filterIdx(_, _, _)
filterIdx(cs, Test(_), i) ==
    IF i > Len(cs) THEN <<>>
    ELSE (IF Test(cs[i]) THEN <<i>> ELSE <<>>) \o filterIdx(cs, Test, i + 1)

\* ContactSet.supporting_contacts, as positions in self.contacts
supporting_contacts(cs) ==
    LET notManaged(c) == ~c.is_managed
    IN  filterIdx(cs, notManaged, 1)

\* ContactSet.compute_wrench_span: `nb` is self.nb_contacts
compute_wrench_span(cs, nb, p) ==
    LET Gi(c) ==
            LET d == vsub(c.p, p)
                x == d[1]
                y == d[2]
                z == d[3]
            IN  << << 1, 0, 0, 0, 0, 0 >>,
                   << 0, 1, 0, 0, 0, 0 >>,
                   << 0, 0, 1, 0, 0, 0 >>,
                   << 0, 0 - z, y, 1, 0, 0 >>,
                   << z, 0, 0 - x, 0, 1, 0 >>,
                   << 0 - y, x, 0, 0, 0, 1 >> >>
        span_blocks == [k \in 1..Len(cs) |-> matmul(Gi(cs[k]), wrench_span(cs[k]))]
    IN  IF Len(cs) = 0 THEN [out |-> "ValueError"]
        ELSE LET S == hstackAll(span_blocks)
             IN  IF Len(S) = 6 /\ Len(S[1]) = 16 * nb
                 THEN [out |-> "ok", S |-> S]
                 ELSE [out |-> "AssertionError"]

\* scipy.linalg.block_diag(*Ms) for a list of at least one matrix
RECURSIVE blockDiagAll(_)
blockDiagAll(Ms) ==
    IF Len(Ms) = 1 THEN Ms[1] ELSE block_diag(Ms[1], blockDiagAll(Tail(Ms)))

\* the sum of wrench_at(point) over the managed contacts that hold a wrench
RECURSIVE ext_wrench(_, _, _)
ext_wrench(cs, point, i) ==
    IF i > Len(cs) THEN zeros(6)
    ELSE IF cs[i].is_managed /\ cs[i].wrench # None
         THEN vadd(wrench_at(cs[i], point), ext_wrench(cs, point, i + 1))
         ELSE ext_wrench(cs, point, i + 1)

\* ContactSet.find_supporting_wrenches up to the call of solve_qp: the
\* constraints G x <= h and A x = b of the quadratic program over n variables.
\* With no supporting contact hstack([]) raises ValueError.  The cost (P, q)
\* only selects among the feasible points and is left to solve_qp.
qp_constraints(cs, wrench, point) ==
    LET supp == supporting_contacts(cs)
        n    == 6 * Len(supp)
    IN  IF Len(supp) = 0 THEN [out |-> "ValueError"]
        ELSE LET G == blockDiagAll([k \in 1..Len(supp) |->
                                       wrench_inequalities(cs[supp[k]])])
                 A == hstackAll([k \in 1..Len(supp) |->
                                    compute_grasp_matrix(cs[supp[k]], point)])
             IN  [out |-> "ok",
                  n   |-> n,
                  G   |-> G,
                  h   |-> zeros(Len(G)),
                  A   |-> A,
                  b   |-> vadd(wrench, ext_wrench(cs, point, 1))]

\* wrenches a solution of the quadratic program is built from
WCand == { zeros(6), ez6, <<0, 0, 2, 0, 0, 0>>, <<0, 0, 3, 0, 0, 0>> }

\* the vectors of length n made of blocks of WCand
RECURSIVE Candidates(_)
Candidates(n) ==
    IF n = 0 THEN { <<>> }
    ELSE { w \o x : w \in WCand, x \in Candidates(n - 6) }

\* qpsolvers.solve_qp: None, or a point that satisfies the constraints
solve_qp(n, G, h, A, b) ==
    {None} \cup { x \in Candidates(n) :
                    /\ dot(A, x) = b
                    /\ \A r \in 1..Len(G) : vdot(G[r], x) <= h[r] }

\* a bug find_supporting_wrenches could have: an all-zero solution is taken
\* for "no solution" (`if not w_all.any()` for `if w_all is None`)
find_supporting_wrenches_falsy(cs, w_all) ==
    IF w_all = None \/ w_all = zeros(Len(w_all)) THEN [out |-> "None"]
    ELSE [out     |-> "list",
          support |-> [i \in 1..Len(cs) |->
                          [contact |-> i, w |-> slice(w_all, 6 * (i - 1), 6 * i)]]]

\* ContactSet.find_supporting_wrenches from the answer of solve_qp on
find_supporting_wrenches(cs, w_all) ==
    IF w_all = None THEN [out |-> "None"]
    ELSE [out     |-> "list",
          support |-> [i \in 1..Len(cs) |->
                          [contact |-> i, w |-> slice(w_all, 6 * (i - 1), 6 * i)]]]

\* net wrenches asked of find_supporting_wrenches
Targets == { zeros(6), ez6, <<0, 0, 2, 0, 0, 0>> }

FreshContacts ==
    { Contact(s, p, R, f) : s \in Shapes, p \in Positions, R \in Rotations,
                            f \in Frictions }


(***************************************************************************)
(* ContactFeed                                                             *)
(***************************************************************************)
\* ContactFeed.__init__, `loaded` being the contacts load(path) appends
ContactFeed(loaded, cyclic) ==
    [ contacts |-> loaded, cyclic |-> cyclic, next_contact_id |-> 0 ]

\* ContactFeed.duplicate_last_contact, (dx, dy, dz) = delta
duplicate_last_contact(f, delta) ==
    LET last    == f.contacts[Len(f.contacts)]
        contact == copy(last)
    IN  [ f EXCEPT !.contacts = Append(@, set_pos(contact, vadd(contact.p, delta))) ]

\* a bug pop could have: the cursor of a cyclic feed is not taken back to 0
pop_no_wrap(f) ==
    LET i  == f.next_contact_id
        n1 == i + 1
    IN  IF n1 >= Len(f.contacts) /\ ~f.cyclic
        THEN [ feed |-> [f EXCEPT !.next_contact_id = n1], out |-> "None" ]
        ELSE LET f2 == [f EXCEPT !.next_contact_id = n1]
             IN  IF i < Len(f.contacts)
                 THEN [ feed |-> f2, out |-> "contact", i |-> i ]
                 ELSE [ feed |-> f2, out |-> "IndexError" ]

\* ContactFeed.pop: the feed it leaves and what it returns
pop(f) ==
    LET i  == f.next_contact_id
        n1 == i + 1
        wraps == n1 >= Len(f.contacts)
    IN  IF wraps /\ ~f.cyclic
        THEN [ feed |-> [f EXCEPT !.next_contact_id = n1], out |-> "None" ]
        ELSE LET f2 == [f EXCEPT !.next_contact_id = IF wraps THEN 0 ELSE n1]
             IN  IF i < Len(f.contacts)
                 THEN [ feed |-> f2, out |-> "contact", i |-> i ]
                 ELSE [ feed |-> f2, out |-> "IndexError" ]

(***************************************************************************)
(* A ContactSet built over a list that its caller keeps using.  `ret`      *)
(* holds the last query and its result; a call that returns nothing clears *)
(* it.  Queries change nothing, so they are issued from the states the     *)
(* other calls leave: every state a query can follow is reached that way.  *)
(***************************************************************************)
Init ==
    /\ contacts \in SeqsUpTo(FreshContacts, MaxContacts)
    /\ nb_contacts = Len(contacts)
    /\ feed = ContactFeed(<<>>, FALSE)
    /\ ret = NoResult

\* ContactSet(contacts): a set built anew over the same list
NewContactSet ==
    /\ nb_contacts' = Len(contacts)
    /\ ret' = NoResult
    /\ UNCHANGED <<contacts, feed>>

\* the caller appends a new contact to the list
AppendContact ==
    /\ Len(contacts) < MaxContacts
    /\ \E c \in FreshContacts : contacts' = Append(contacts, c)
    /\ ret' = NoResult
    /\ UNCHANGED <<nb_contacts, feed>>

\* the caller appends a copy of a contact of the list
AppendCopy ==
    /\ Len(contacts) < MaxContacts
    /\ \E i \in 1..Len(contacts) : contacts' = Append(contacts, copy(contacts[i]))
    /\ ret' = NoResult
    /\ UNCHANGED <<nb_contacts, feed>>

\* the caller removes a contact from the list
RemoveContact ==
    /\ \E i \in 1..Len(contacts) : contacts' = removeAt(contacts, i)
    /\ ret' = NoResult
    /\ UNCHANGED <<nb_contacts, feed>>

SetWrench ==
    /\ \E i \in 1..Len(contacts), w \in Wrenches :
           contacts' = [contacts EXCEPT ![i] = set_wrench(@, w)]
    /\ ret' = NoResult
    /\ UNCHANGED <<nb_contacts, feed>>

UnsetWrench ==
    /\ \E i \in 1..Len(contacts) :
           contacts' = [contacts EXCEPT ![i] = unset_wrench(@)]
    /\ ret' = NoResult
    /\ UNCHANGED <<nb_contacts, feed>>

GraspMatrix ==
    /\ ret = NoResult
    /\ \E i \in 1..Len(contacts), p \in Points :
           ret' = [op |-> "compute_grasp_matrix", contact |-> i, p |-> p,
                   G |-> compute_grasp_matrix(contacts[i], p)]
    /\ UNCHANGED <<contacts, nb_contacts, feed>>

WrenchAt ==
    /\ ret = NoResult
    /\ \E i \in 1..Len(contacts), p \in Points :
           ret' = [op |-> "wrench_at", contact |-> i, point |-> p,
                   wrench |-> wrench_at(contacts[i], p)]
    /\ UNCHANGED <<contacts, nb_contacts, feed>>

WrenchSpan ==
    /\ ret = NoResult
    /\ \E p \in Points :
           ret' = [op |-> "compute_wrench_span", p |-> p,
                   res |-> compute_wrench_span(contacts, nb_contacts, p)]
    /\ UNCHANGED <<contacts, nb_contacts, feed>>

FindSupportingWrenches ==
    /\ ret = NoResult
    /\ \E wrench \in Targets, point \in Points :
           LET qp == qp_constraints(contacts, wrench, point)
           IN  IF qp.out = "ValueError"
               THEN ret' = [op |-> "find_supporting_wrenches", wrench |-> wrench,
                            point |-> point, res |-> [out |-> "ValueError"]]
               ELSE \E w_all \in solve_qp(qp.n, qp.G, qp.h, qp.A, qp.b) :
                        ret' = [op |-> "find_supporting_wrenches",
                                wrench |-> wrench, point |-> point,
                                w_all |-> w_all,
                                res |-> find_supporting_wrenches(contacts, w_all)]
    /\ UNCHANGED <<contacts, nb_contacts, feed>>

Next ==
    \/ NewContactSet
    \/ AppendContact
    \/ AppendCopy
    \/ RemoveContact
    \/ SetWrench
    \/ UnsetWrench
    \/ GraspMatrix
    \/ WrenchAt
    \/ WrenchSpan
    \/ FindSupportingWrenches

Spec == Init /\ [][Next]_vars

(***************************************************************************)
(* Planar geometry (polygons.py).  Inputs are integer points; a computed   *)
(* coordinate is an exact fraction <<n, d>>, d > 0, in lowest terms.  The  *)
(* tolerances of the code (|D| < 1e-5, PREC_TOL = 1e-10) are far below the *)
(* smallest non-zero gap two such numbers can have here, so a comparison   *)
(* within tolerance is the exact comparison.                               *)
(***************************************************************************)
abs(a) == IF a < 0 THEN 0 - a ELSE a

min(a, b) == IF a <= b THEN a ELSE b

max(a, b) == IF a >= b THEN a ELSE b

RECURSIVE gcd(_, _)
gcd(a, b) == IF b = 0 THEN a ELSE gcd(b, a % b)

\* the quotient n / d (d # 0) of true division
frac(n, d) ==
    LET g == gcd(abs(n), abs(d))
        s == IF d < 0 THEN -1 ELSE 1
    IN  << (s * n) \div g, (s * d) \div g >>

\* a <= q and q <= b for an integer a, b and a fraction q
leq_int_frac(a, q) == a * q[2] <= q[1]

leq_frac_int(q, b) == q[1] <= b * q[2]

\* q + a, q * a for a fraction q and an integer a
frac_add_int(q, a) == frac(q[1] + a * q[2], q[2])

\* the orientation of three points given in homogeneous coordinates
\* <<x, y, w>>, w > 0: positive when a, b, c turn counterclockwise
orient(a, b, c) ==
      a[1] * (b[2] * c[3] - b[3] * c[2])
    - a[2] * (b[1] * c[3] - b[3] * c[1])
    + a[3] * (b[1] * c[2] - b[2] * c[1])

\* b lies on the closed segment [a, c] (homogeneous coordinates)
between(a, b, c) ==
    /\ orient(a, b, c) = 0
    /\ min(a[1] * c[3], c[1] * a[3]) * b[3] <= b[1] * a[3] * c[3]
    /\ b[1] * a[3] * c[3] <= max(a[1] * c[3], c[1] * a[3]) * b[3]
    /\ min(a[2] * c[3], c[2] * a[3]) * b[3] <= b[2] * a[3] * c[3]
    /\ b[2] * a[3] * c[3] <= max(a[2] * c[3], c[2] * a[3]) * b[3]

\* p lies in the closed triangle a, b, c, which is not flat
in_triangle(p, a, b, c) ==
    LET o  == orient(a, b, c)
        o1 == orient(a, b, p)
        o2 == orient(b, c, p)
        o3 == orient(c, a, p)
    IN  /\ o # 0
        /\ \/ (o1 >= 0 /\ o2 >= 0 /\ o3 >= 0)
           \/ (o1 <= 0 /\ o2 <= 0 /\ o3 <= 0)

\* the extreme points of a list of 2-D points in homogeneous coordinates,
\* as indices from 1
extreme_points(points) ==
    LET I == 1..Len(points)
        extreme(i) ==
            /\ \A j \in I \ {i}, k \in I \ {i} :
                   j # k => ~between(points[j], points[i], points[k])
            /\ \A j \in I \ {i}, k \in I \ {i}, l \in I \ {i} :
                   ~in_triangle(points[i], points[j], points[k], points[l])
    IN  { i \in I : extreme(i) }

\* scipy.spatial.ConvexHull(points).vertices for 2-D points: the indices of
\* the extreme points in counterclockwise order.  The documentation fixes the
\* order, not the vertex it begins with: `first` is that vertex, any extreme
\* point.  Flat input (QhullError) gives <<>>.
ConvexHull(points, first) ==
    LET E == extreme_points(points)
        succ(i) == CHOOSE j \in E \ {i} :
                      \A k \in E \ {i, j} : orient(points[i], points[j], points[k]) > 0
        walk[n \in 1..Cardinality(E)] ==
            IF n = 1 THEN <<first>>
            ELSE Append(walk[n - 1], succ(walk[n - 1][n - 1]))
    IN  IF Cardinality(E) < 3 THEN <<>> ELSE walk[Cardinality(E)]

\* a bug __compute_polygon_hull could have: the simplex that closes the
\* hull, (hull.vertices[-1], hull.vertices[0]), is left out
core_polygon_hull_open(B, c, hull_vertices) ==
    LET axis_intersection(i, j) ==
            LET ai == c[i]
                bi == B[i]
                aj == c[j]
                bj == B[j]
                det == bi[1] * bj[2] - bj[1] * bi[2]
            IN  << frac(ai * bj[2] - aj * bi[2], det),
                   frac(bi[1] * aj - bj[1] * ai, det) >>
        n == Len(hull_vertices)
    IN  [k \in 1..(n - 1) |-> axis_intersection(hull_vertices[k], hull_vertices[k + 1])]

\* __compute_polygon_hull for B x <= c with all c > 0, given hull.vertices
core_polygon_hull(B, c, hull_vertices) ==
    LET axis_intersection(i, j) ==
            LET ai == c[i]
                bi == B[i]
                aj == c[j]
                bj == B[j]
                det == bi[1] * bj[2] - bj[1] * bi[2]
            IN  << frac(ai * bj[2] - aj * bi[2], det),
                   frac(bi[1] * aj - bj[1] * ai, det) >>
        n == Len(hull_vertices)
        simplices == [k \in 1..n |->
                         << hull_vertices[k], hull_vertices[(k % n) + 1] >>]
    IN  [k \in 1..n |-> axis_intersection(simplices[k][1], simplices[k][2])]

\* the dual points B[i] / c[i] of __compute_polygon_hull, homogeneous
B_polar(B, c) == [i \in 1..Len(B) |-> << B[i][1], B[i][2], c[i] >>]

all_positive(c) == \A i \in 1..Len(c) : c[i] > 0

\* a bug compute_polygon_hull could have: an empty list is returned, where
\* the code raises, when the shifted system still has some c[i] <= 0
compute_polygon_hull_empty_list(B, c, x, first) ==
    IF ~all_positive(c) /\ x = None THEN [out |-> "Exception"]
    ELSE LET shifted == ~all_positive(c)
             c2 == IF shifted THEN vsub(c, dot(B, x)) ELSE c
         IN  IF ~all_positive(c2) THEN [out |-> "vertices", vertices |-> <<>>]
             ELSE LET hv == ConvexHull(B_polar(B, c2), first)
                      vs == core_polygon_hull(B, c2, hv)
                  IN  IF hv = <<>> THEN [out |-> "QhullError"]
                      ELSE [out |-> "vertices",
                            vertices |->
                                IF shifted
                                THEN [k \in 1..Len(vs) |->
                                         << frac_add_int(vs[k][1], x[1]),
                                            frac_add_int(vs[k][2], x[2]) >>]
                                ELSE vs]

\* a bug compute_polygon_hull could have: the vertices of the shifted system
\* are returned as they are, x is not added back
compute_polygon_hull_not_shifted_back(B, c, x, first) ==
    IF ~all_positive(c) /\ x = None THEN [out |-> "Exception"]
    ELSE LET shifted == ~all_positive(c)
             c2 == IF shifted THEN vsub(c, dot(B, x)) ELSE c
         IN  IF ~all_positive(c2) THEN [out |-> "Exception"]
             ELSE LET hv == ConvexHull(B_polar(B, c2), first)
                  IN  IF hv = <<>> THEN [out |-> "QhullError"]
                      ELSE [out |-> "vertices",
                            vertices |-> core_polygon_hull(B, c2, hv)]

\* compute_polygon_hull, given the answer `x` of compute_chebyshev_center
\* (None when it raised; unused when all c > 0) and the vertex `first` that
\* hull.vertices begins with
compute_polygon_hull(B, c, x, first) ==
    IF ~all_positive(c) /\ x = None THEN [out |-> "Exception"]
    ELSE LET shifted == ~all_positive(c)
             c2 == IF shifted THEN vsub(c, dot(B, x)) ELSE c
         IN  IF ~all_positive(c2) THEN [out |-> "Exception"]
             ELSE LET hv == ConvexHull(B_polar(B, c2), first)
                  IN  IF hv = <<>> THEN [out |-> "QhullError"]
                      ELSE LET vs == core_polygon_hull(B, c2, hv)
                           IN  [out |-> "vertices",
                                vertices |->
                                    IF shifted
                                    THEN [k \in 1..Len(vs) |->
                                             << frac_add_int(vs[k][1], x[1]),
                                                frac_add_int(vs[k][2], x[2]) >>]
                                    ELSE vs]

\* the arrays B and c of the caller after compute_polygon_hull(B, c): the
\* shift `c = c - dot(B, x)` binds the local name to a new array, and
\* nothing is written into B
caller_arrays(B, c, x) == [B |-> B, c |-> c]

\* polyhedra.compute_chebyshev_center(B, c): an interior point of B x <= c.
\* When there is none it raises (None) or returns some point.  Points are
\* taken from the integer grid of half-width GridMax.
GridMax == 3

Grid == { <<x, y>> : x \in (0 - GridMax)..GridMax, y \in (0 - GridMax)..GridMax }

compute_chebyshev_center(B, c) ==
    LET interior == { x \in Grid : \A i \in 1..Len(B) : vdot(B[i], x) < c[i] }
    IN  IF interior # {} THEN interior ELSE Grid \cup {None}

\* the loop of intersect_line_polygon over the edges of the polygon vs: the
\* crossings of the segment `line` with each edge, in edge order
line_crossings(line, vs) ==
    LET line_coordinates(a, b) ==
            << a[2] - b[2],
               b[1] - a[1],
               0 - (a[1] * b[2] - b[1] * a[2]) >>
        n  == Len(vs)
        p1 == line[1]
        p2 == line[2]
        L1 == line_coordinates(p1, p2)
        x_min == min(p1[1], p2[1])
        x_max == max(p1[1], p2[1])
        y_min == min(p1[2], p2[2])
        y_max == max(p1[2], p2[2])
        \* what edge i appends to inter_points
        edge(i) ==
            LET v1 == vs[i]
                v2 == vs[(i % n) + 1]
                L2 == line_coordinates(v1, v2)
                D  == L1[1] * L2[2] - L1[2] * L2[1]
                Dx == L1[3] * L2[2] - L1[2] * L2[3]
                Dy == L1[1] * L2[3] - L1[3] * L2[1]
            IN  IF D = 0 THEN <<>>
                ELSE LET x == frac(Dx, D)
                         y == frac(Dy, D)
                     IN  IF ~(/\ leq_int_frac(x_min, x) /\ leq_frac_int(x, x_max)
                              /\ leq_int_frac(y_min, y) /\ leq_frac_int(y, y_max))
                         THEN <<>>
                         ELSE IF ~(/\ leq_int_frac(min(v1[1], v2[1]), x)
                                   /\ leq_frac_int(x, max(v1[1], v2[1]))
                                   /\ leq_int_frac(min(v1[2], v2[2]), y)
                                   /\ leq_frac_int(y, max(v1[2], v2[2])))
                         THEN <<>>
                         ELSE << <<x, y>> >>
        upto[i \in 0..n] == IF i = 0 THEN <<>> ELSE upto[i - 1] \o edge(i)
    IN  upto[n]

\* intersect_line_polygon: the vertices are first put in hull order when
\* apply_hull is set, then every edge is crossed with the line.  `first` is
\* the vertex ConvexHull begins with (unused unless apply_hull).
intersect_line_polygon(line, verts, apply_hull, first) ==
    IF apply_hull
    THEN LET hull == ConvexHull([k \in 1..Len(verts) |->
                                    << verts[k][1], verts[k][2], 1 >>], first)
         IN  IF hull = <<>> THEN [out |-> "QhullError"]
             ELSE [out |-> "ok",
                   inter_points |->
                       line_crossings(line, [k \in 1..Len(hull) |-> verts[hull[k]]])]
    ELSE [out |-> "ok", inter_points |-> line_crossings(line, verts)]

\* intersect_line_cylinder.  p lies on the segment, so the ratio of norms
\* alpha is the ratio of the coordinate differences along it.
intersect_line_cylinder(line, verts, first) ==
    LET inter_2d == intersect_line_polygon(line, verts, TRUE, first)
        p1 == line[1]
        p2 == line[2]
        k  == IF p2[1] # p1[1] THEN 1 ELSE 2
        lift(p) ==
            LET an == abs(p[k][1] - p1[k] * p[k][2])
                ad == abs(p[k][2] * (p2[k] - p1[k]))
            IN  << p[1], p[2], frac(p1[3] * ad + an * (p2[3] - p1[3]), ad) >>
    IN  IF inter_2d.out # "ok" THEN inter_2d
        ELSE [out |-> "ok",
              inter_points |-> [i \in 1..Len(inter_2d.inter_points) |->
                                   lift(inter_2d.inter_points[i])]]

(***************************************************************************)
(* Calls of the geometry functions.  They are pure: each is applied, from  *)
(* the initial state, to every input of its domain.                        *)
(***************************************************************************)
MaxVertices == 4

PolyPts == { <<0, 0>>, <<2, 0>>, <<2, 2>>, <<0, 2>> }

h1(v) == << v[1], v[2], 1 >>

\* strictly convex polygons as ordered vertex lists, either way round
Polygons ==
    { vs \in SeqsUpTo(PolyPts, MaxVertices) :
        /\ Len(vs) >= 3
        /\ \A i \in 1..Len(vs), j \in 1..Len(vs) : i # j => vs[i] # vs[j]
        /\ LET n == Len(vs)
               o(i) == orient(h1(vs[i]), h1(vs[(i % n) + 1]), h1(vs[((i + 1) % n) + 1]))
           IN  \/ \A i \in 1..n : o(i) > 0
               \/ \A i \in 1..n : o(i) < 0 }

SegXY == { -1, 1, 3 }

Lines == { << <<x1, y1, 0>>, <<x2, y2, z2>> >> :
             x1 \in SegXY, y1 \in SegXY, x2 \in SegXY, y2 \in SegXY, z2 \in {0, 2} }

\* the half-planes x <= c1, y <= c2, -x <= c3, -y <= c4
BoxB == << <<1, 0>>, <<0, 1>>, <<-1, 0>>, <<0, -1>> >>

\* right-hand sides: all positive (no shift), or all even, in which case a
\* box with an interior holds a grid point in its interior
BoxCs == { c \in [1..4 -> {-2, 0, 1, 2}] :
             all_positive(c) \/ \A i \in 1..4 : c[i] % 2 = 0 }

\* the vertices hull.vertices may begin with in compute_polygon_hull(B, c)
\* after the shift by x; 0 when ConvexHull is not reached
hull_firsts(B, c, x) ==
    LET c2 == IF all_positive(c) THEN c
              ELSE IF x = None THEN c ELSE vsub(c, dot(B, x))
    IN  IF all_positive(c2) THEN extreme_points(B_polar(B, c2)) ELSE {0}

InitGeom ==
    /\ contacts = <<>>
    /\ nb_contacts = 0
    /\ feed = ContactFeed(<<>>, FALSE)
    /\ ret = NoResult

PolygonHull ==
    /\ ret = NoResult
    /\ \E c \in BoxCs :
         \E x \in (IF all_positive(c) THEN {None}
                   ELSE compute_chebyshev_center(BoxB, c)) :
           \E first \in hull_firsts(BoxB, c, x) :
               ret' = [op |-> "compute_polygon_hull", B |-> BoxB, c |-> c, x |-> x,
                       res |-> compute_polygon_hull(BoxB, c, x, first),
                       after |-> caller_arrays(BoxB, c, x)]
    /\ UNCHANGED <<contacts, nb_contacts, feed>>

IntersectLinePolygon ==
    /\ ret = NoResult
    /\ \E line \in Lines, vs \in Polygons, apply_hull \in BOOLEAN :
         \E first \in (IF apply_hull THEN 1..Len(vs) ELSE {0}) :
             ret' = [op |-> "intersect_line_polygon", line |-> line,
                     vertices |-> vs, apply_hull |-> apply_hull,
                     res |-> intersect_line_polygon(line, vs, apply_hull, first)]
    /\ UNCHANGED <<contacts, nb_contacts, feed>>

IntersectLineCylinder ==
    /\ ret = NoResult
    /\ \E line \in Lines, vs \in Polygons, first \in 1..MaxVertices :
           /\ first <= Len(vs)
           /\ ret' = [op |-> "intersect_line_cylinder", line |-> line,
                      vertices |-> vs,
                      res |-> intersect_line_cylinder(line, vs, first)]
    /\ UNCHANGED <<contacts, nb_contacts, feed>>

NextGeom ==
    \/ PolygonHull
    \/ IntersectLinePolygon
    \/ IntersectLineCylinder

SpecGeom == InitGeom /\ [][NextGeom]_vars

(***************************************************************************)
(* A ContactFeed and the contacts it holds                                 *)
(***************************************************************************)
MaxFeed == 3

\* pop is followed up to this cursor value
MaxCursor == 4

\* displacements handed to duplicate_last_contact
Deltas == { <<1, 1, 0>> }

InitFeed ==
    /\ contacts = <<>>
    /\ nb_contacts = 0
    /\ \E loaded \in SeqsUpTo(FreshContacts, 1), cyclic \in BOOLEAN :
           feed = ContactFeed(loaded, cyclic)
    /\ ret = NoResult

\* a contact is created and appended to the feed's list
FeedAppend ==
    /\ Len(feed.contacts) < MaxFeed
    /\ \E c \in FreshContacts : feed' = [feed EXCEPT !.contacts = Append(@, c)]
    /\ ret' = NoResult
    /\ UNCHANGED <<contacts, nb_contacts>>

FeedSetWrench ==
    /\ \E i \in 1..Len(feed.contacts), w \in Wrenches :
           feed' = [feed EXCEPT !.contacts[i] = set_wrench(@, w)]
    /\ ret' = NoResult
    /\ UNCHANGED <<contacts, nb_contacts>>

FeedUnsetWrench ==
    /\ \E i \in 1..Len(feed.contacts) :
           feed' = [feed EXCEPT !.contacts[i] = unset_wrench(@)]
    /\ ret' = NoResult
    /\ UNCHANGED <<contacts, nb_contacts>>

DuplicateLastContact ==
    /\ Len(feed.contacts) > 0
    /\ Len(feed.contacts) < MaxFeed
    /\ \E delta \in Deltas : feed' = duplicate_last_contact(feed, delta)
    /\ ret' = NoResult
    /\ UNCHANGED <<contacts, nb_contacts>>

Pop ==
    /\ feed.next_contact_id < MaxCursor
    /\ LET r == pop(feed)
       IN  /\ feed' = r.feed
           /\ ret' = [op |-> "pop",
                      res |-> IF r.out = "contact"
                              THEN [out |-> "contact", i |-> r.i]
                              ELSE [out |-> r.out]]
    /\ UNCHANGED <<contacts, nb_contacts>>

NextFeed ==
    \/ FeedAppend
    \/ FeedSetWrench
    \/ FeedUnsetWrench
    \/ DuplicateLastContact
    \/ Pop

SpecFeed == InitFeed /\ [][NextFeed]_vars

(***************************************************************************)
(* The friction cones of one contact.  The four properties are pure: each  *)
(* is read once from every contact of the domain.                          *)
(***************************************************************************)
Rx90 == << << 1, 0, 0 >>, << 0, 0, -1 >>, << 0, 1, 0 >> >>

ConeShapes == { <<2, 1>>, <<1, 1>> }

ConePositions == { <<0, 0, 0>>, <<1, 2, 0>>, <<0, 0, 1>> }

ConeRotations == { I3, Rz90, Rx90 }

\* friction coefficients, in units of sqrt(2): mu = 0, 1, 2
ConeFrictions == { 0, 1, 2 }

InitCone ==
    /\ \E shape \in ConeShapes, pos \in ConePositions,
          R \in ConeRotations, friction \in ConeFrictions :
           contacts = << Contact(shape, pos, R, friction) >>
    /\ nb_contacts = 1
    /\ feed = ContactFeed(<<>>, FALSE)
    /\ ret = NoResult

ForceInequalities ==
    /\ ret = NoResult
    /\ ret' = [op |-> "force_inequalities", F |-> force_inequalities(contacts[1])]
    /\ UNCHANGED <<contacts, nb_contacts, feed>>

ForceSpan ==
    /\ ret = NoResult
    /\ ret' = [op |-> "force_span", S |-> force_span(contacts[1])]
    /\ UNCHANGED <<contacts, nb_contacts, feed>>

WrenchInequalities ==
    /\ ret = NoResult
    /\ ret' = [op |-> "wrench_inequalities", F |-> wrench_inequalities(contacts[1])]
    /\ UNCHANGED <<contacts, nb_contacts, feed>>

ContactWrenchSpan ==
    /\ ret = NoResult
    /\ ret' = [op |-> "wrench_span", S |-> wrench_span(contacts[1])]
    /\ UNCHANGED <<contacts, nb_contacts, feed>>

NextCone ==
    \/ ForceInequalities
    \/ ForceSpan
    \/ WrenchInequalities
    \/ ContactWrenchSpan

SpecCone == InitCone /\ [][NextCone]_vars

(***************************************************************************)
(* Properties                                                              *)
(***************************************************************************)
IsFSW == ret.op = "find_supporting_wrenches"

\* C1: every contact, in the feed and in the contact set, holds a wrench
\* if and only if it is managed.
C1_WrenchIffManaged ==
    /\ \A i \in 1..Len(feed.contacts) :
           (feed.contacts[i].wrench # None) <=> feed.contacts[i].is_managed
    /\ \A i \in 1..Len(contacts) :
           (contacts[i].wrench # None) <=> contacts[i].is_managed

\* C2: a successful find_supporting_wrenches returns one entry per supporting
\* contact, the k-th entry pairing the k-th supporting contact with the k-th
\* block of 6 of the solution; no entry holds a shorter block.
C2_OneBlockPerSupportingContact ==
    (IsFSW /\ ret.res.out = "list") =>
        LET supp    == supporting_contacts(contacts)
            support == ret.res.support
        IN  /\ Len(support) = Len(supp)
            /\ \A k \in 1..Len(support) :
                   /\ support[k].contact = supp[k]
                   /\ support[k].w = slice(ret.w_all, 6 * (k - 1), 6 * k)
                   /\ Len(support[k].w) = 6

\* C3: a solution of the program satisfies: the supporting contacts' wrenches
\* transported to `point` (by their grasp matrices) plus the managed contacts'
\* wrenches at `point` (wrench_at) sum to the target wrench.
C3_WrenchesSumToTarget ==
    (IsFSW /\ ret.res.out = "list") =>
        LET supp == supporting_contacts(contacts)
            A    == hstackAll([k \in 1..Len(supp) |->
                                  compute_grasp_matrix(contacts[supp[k]], ret.point)])
        IN  vadd(dot(A, ret.w_all), ext_wrench(contacts, ret.point, 1)) = ret.wrench

\* C4: nb_contacts is the length of the contact list, and the shape assertion
\* of compute_wrench_span never fails.
C4_NbContactsIsLength ==
    /\ nb_contacts = Len(contacts)
    /\ (ret.op = "compute_wrench_span" => ret.res.out # "AssertionError")

\* C5: the grasp matrix has R^T on both diagonal blocks and the matrix product
\* -R^T skew(d), d = contact position - p, as its lower-left block.
C5_GraspMatrixBlocks ==
    (ret.op = "compute_grasp_matrix") =>
        LET c  == contacts[ret.contact]
            Rt == transpose(c.R)
            d  == vsub(c.p, ret.p)
        IN  ret.G = vstack(hstack(Rt, zeros2(3, 3)),
                           hstack(matmul(neg(Rt), crossmat(d)), Rt))

\* C6: wrench_at(P) of a stored wrench (f, m) is (f, m + (position - P) x f).
C6_WrenchAtTransports ==
    (ret.op = "wrench_at" /\ contacts[ret.contact].wrench # None) =>
        LET c == contacts[ret.contact]
            f == SubSeq(c.wrench, 1, 3)
            m == SubSeq(c.wrench, 4, 6)
        IN  ret.wrench = f \o vadd(m, cross(vsub(c.p, ret.point), f))

\* C7: find_supporting_wrenches returns None, and no list, exactly when
\* solve_qp reports no solution; any solution, the all-zero one included,
\* gives a list.
C7_InfeasibleIsNone ==
    (IsFSW /\ ret.res.out # "ValueError") =>
        IF ret.w_all = None
        THEN ret.res.out = "None" /\ "support" \notin DOMAIN ret.res
        ELSE ret.res.out = "list" /\ "support" \in DOMAIN ret.res

\* an all-zero solution, returned as a list
C7_ZeroSolutionIsList ==
    /\ IsFSW
    /\ ret.res.out = "list"
    /\ ret.w_all = zeros(Len(ret.w_all))
    /\ Len(ret.w_all) >= 6

IsHull == ret.op = "compute_polygon_hull"

\* the system of the last compute_polygon_hull call had some c[i] <= 0 and
\* still has after the shift by the point compute_chebyshev_center returned
StillNotInterior ==
    /\ IsHull
    /\ ~all_positive(ret.c)
    /\ ret.x # None
    /\ ~all_positive(vsub(ret.c, dot(ret.B, ret.x)))

\* C8 (as stated): when the shifted system still has some c[i] <= 0,
\* compute_polygon_hull returns normally, with an empty or null result.
C8_InfeasibleIsEmptyResult ==
    StillNotInterior =>
        /\ ret.res.out \notin {"Exception", "QhullError"}
        /\ (ret.res.out = "vertices" => ret.res.vertices = <<>>)

\* C8 (amended): when the shifted system still has some c[i] <= 0,
\* compute_polygon_hull raises an exception: it returns no vertices and no
\* empty or null result.
C8_InfeasibleRaises ==
    StillNotInterior => ret.res.out = "Exception"

\* a system without interior point, shifted and found empty
C8_ShiftedAndRaised ==
    /\ StillNotInterior
    /\ \A p \in Grid : \E i \in 1..Len(ret.B) : vdot(ret.B[i], p) >= ret.c[i]
    /\ ret.res.out = "Exception"

\* C9: intersect_line_polygon returns at most two points.
C9_AtMostTwoPoints ==
    (ret.op = "intersect_line_polygon" /\ ret.res.out = "ok") =>
        Len(ret.res.inter_points) <= 2

\* the square of the planar distance from the point with fraction coordinates
\* q to the integer point p, as a fraction
dist2(q, p) ==
    LET dx == (q[1][1] - p[1] * q[1][2]) * q[2][2]
        dy == (q[2][1] - p[2] * q[2][2]) * q[1][2]
        dd == q[1][2] * q[2][2]
    IN  frac(dx * dx + dy * dy, dd * dd)

frac_leq(a, b) == a[1] * b[2] <= b[1] * a[2]

\* the distinct points where the segment of the last intersect_line_cylinder
\* call crosses the cross-section
Crossings ==
    { ret.res.inter_points[i] : i \in 1..Len(ret.res.inter_points) }

\* C10: when the segment crosses the cross-section at two points,
\* intersect_line_cylinder returns one point, the crossing closest to p1.
C10_ClosestCrossingOnly ==
    (/\ ret.op = "intersect_line_cylinder"
     /\ ret.res.out = "ok"
     /\ Cardinality(Crossings) = 2) =>
        /\ Len(ret.res.inter_points) = 1
        /\ \A q \in Crossings :
               frac_leq(dist2(ret.res.inter_points[1], ret.line[1]),
                        dist2(q, ret.line[1]))

\* every entry of the matrix product M * S is <= 0
all_nonpositive(M, S) ==
    LET St == transpose(S)
    IN  \A i \in 1..Len(M), j \in 1..Len(St) : vdot(M[i], St[j]) <= 0

\* C11: each of the 16 columns s of a contact's wrench_span satisfies
\* wrench_inequalities * s <= 0 on all 16 rows.
C11_WrenchSpanInWrenchCone ==
    ret.op = "wrench_span" =>
        /\ Len(ret.S) = 6
        /\ Len(ret.S[1]) = 16
        /\ Len(wrench_inequalities(contacts[1])) = 16
        /\ all_nonpositive(wrench_inequalities(contacts[1]), ret.S)

\* the transport of a wrench from point p to point q: the force is kept and
\* the moment gains (p - q) x f
point_transport(p, q) ==
    vstack(hstack(eye(3), zeros2(3, 3)),
           hstack(crossmat(vsub(p, q)), eye(3)))

\* C12: for any two points p and q, compute_grasp_matrix(q) is the transport
\* from p to q applied after compute_grasp_matrix(p).
C12_GraspMatricesCompose ==
    ret.op = "compute_grasp_matrix" =>
        \A q \in Points :
            compute_grasp_matrix(contacts[ret.contact], q)
                = matmul(point_transport(ret.p, q), ret.G)

\* a vertex with fraction coordinates, in homogeneous coordinates
hfrac(v) == << v[1][1] * v[2][2], v[2][1] * v[1][2], v[1][2] * v[2][2] >>

\* the vertex list turns counterclockwise at every vertex
counterclockwise(vs) ==
    LET n == Len(vs)
    IN  \A k \in 1..n :
            orient(hfrac(vs[k]), hfrac(vs[(k % n) + 1]),
                   hfrac(vs[((k + 1) % n) + 1])) > 0

SquareCorners ==
    { << <<x, 1>>, <<y, 1>> >> : x \in {-1, 1}, y \in {-1, 1} }

\* the last call was compute_polygon_hull on -1 <= x <= 1, -1 <= y <= 1
IsSquareHull == IsHull /\ ret.B = BoxB /\ ret.c = <<1, 1, 1, 1>>

\* C13: compute_polygon_hull on the square -1 <= x <= 1, -1 <= y <= 1
\* returns exactly the 4 vertices (+-1, +-1), in counterclockwise order,
\* whichever vertex the convex hull begins with.
C13_SquareHull ==
    IsSquareHull =>
        /\ ret.x = None
        /\ ret.res.out = "vertices"
        /\ Len(ret.res.vertices) = 4
        /\ { ret.res.vertices[k] : k \in 1..4 } = SquareCorners
        /\ counterclockwise(ret.res.vertices)

\* the square's hull, listed from the vertex (-1, -1)
C13_SquareFromLowerLeft ==
    /\ IsSquareHull
    /\ ret.res.out = "vertices"
    /\ ret.res.vertices =
           << << <<-1, 1>>, <<-1, 1>> >>, << <<1, 1>>, <<-1, 1>> >>,
              << <<1, 1>>, <<1, 1>> >>, << <<-1, 1>>, <<1, 1>> >> >>

\* C14: each of the 4 columns f of a contact's force_span satisfies
\* force_inequalities * f <= 0 on all 4 rows.
C14_ForceSpanInForceCone ==
    ret.op = "force_span" =>
        /\ Len(ret.S) = 3
        /\ Len(ret.S[1]) = 4
        /\ Len(force_inequalities(contacts[1])) = 4
        /\ all_nonpositive(force_inequalities(contacts[1]), ret.S)

\* the force span of a rotated contact with friction: some ray lies on a
\* face of the cone and some ray strictly inside another face's half-space
C14_RotatedWithFriction ==
    /\ ret.op = "force_span"
    /\ contacts[1].R = Rx90
    /\ contacts[1].friction = 2
    /\ LET F  == force_inequalities(contacts[1])
           St == transpose(ret.S)
       IN  /\ \E i \in 1..4, j \in 1..4 : vdot(F[i], St[j]) = 0
           /\ \E i \in 1..4, j \in 1..4 : vdot(F[i], St[j]) < 0

\* the corners of the box x <= c1, y <= c2, -x <= c3, -y <= c4
BoxCorners(c) ==
    { << <<x, 1>>, <<y, 1>> >> : x \in {c[1], 0 - c[3]}, y \in {c[2], 0 - c[4]} }

\* the list vs begun at its k-th element
rotated(vs, k) == [i \in 1..Len(vs) |-> vs[((i + k - 2) % Len(vs)) + 1]]

\* the vertices vs moved by the integer vector t
translated(vs, t) ==
    [k \in 1..Len(vs) |-> << frac_add_int(vs[k][1], t[1]),
                             frac_add_int(vs[k][2], t[2]) >>]

\* translations applied to the half-plane system
Translations == { <<1, 0>>, <<-1, 1>>, <<1, 1>> }

\* the last call was compute_polygon_hull on a box with an interior and with
\* some c[i] <= 0, and compute_chebyshev_center returned a point
IsOffCentreHull ==
    /\ IsHull
    /\ ~all_positive(ret.c)
    /\ \E p \in Grid : \A i \in 1..Len(ret.B) : vdot(ret.B[i], p) < ret.c[i]
    /\ ret.x # None

\* C15: for a polygon with an interior and some c[i] <= 0,
\* compute_polygon_hull returns the vertices of the polygon itself,
\* counterclockwise; the result for (B, c + B t) is the result for (B, c)
\* moved by t, up to the vertex the list begins with; and the caller's B and
\* c are as they were.
C15_ShiftIsUndone ==
    IsOffCentreHull =>
        /\ ret.after = [B |-> ret.B, c |-> ret.c]
        /\ ret.res.out = "vertices"
        /\ Len(ret.res.vertices) = 4
        /\ { ret.res.vertices[k] : k \in 1..4 } = BoxCorners(ret.c)
        /\ counterclockwise(ret.res.vertices)
        /\ \A t \in Translations :
             LET c2 == vadd(ret.c, dot(ret.B, t))
             IN  \A x2 \in (IF all_positive(c2) THEN {None}
                            ELSE compute_chebyshev_center(ret.B, c2)) :
                   \A first2 \in hull_firsts(ret.B, c2, x2) :
                     LET r2 == compute_polygon_hull(ret.B, c2, x2, first2)
                     IN  /\ r2.out = "vertices"
                         /\ \E k \in 1..4 :
                              r2.vertices = rotated(translated(ret.res.vertices, t), k)

\* the box 0 <= x <= 2, -2 <= y <= 0, shifted by its interior point (1, -1)
\* and its corners returned where they are
C15_CornerAtOrigin ==
    /\ IsOffCentreHull
    /\ ret.c = <<2, 0, 0, 2>>
    /\ ret.x = <<1, -1>>
    /\ ret.res.out = "vertices"
    /\ { ret.res.vertices[k] : k \in 1..4 } = BoxCorners(ret.c)
    /\ << <<0, 1>>, <<0, 1>> >> \in BoxCorners(ret.c)

\* C16: in a feed that is not cyclic and holds n >= 1 contacts, a pop with
\* the cursor on one of the contacts, the last one included, returns that
\* contact and moves the cursor by one, so that the k-th pop from cursor 0
\* returns the k-th contact for every k up to n; a pop with the cursor at n
\* returns None, and the cursor never exceeds n.
C16_PopsEveryContactInOrder ==
    /\ [](~feed.cyclic /\ Len(feed.contacts) >= 1 =>
              feed.next_contact_id <= Len(feed.contacts))
    /\ [][ (~feed.cyclic /\ Len(feed.contacts) >= 1 /\ ret'.op = "pop") =>
              IF feed.next_contact_id < Len(feed.contacts)
              THEN /\ ret'.res = [out |-> "contact", i |-> feed.next_contact_id]
                   /\ feed'.next_contact_id = feed.next_contact_id + 1
              ELSE ret'.res = [out |-> "None"] ]_vars

\* C17: in a cyclic feed with at least one contact the cursor stays within
\* 0..len(contacts)-1, and every pop returns the contact under the cursor
\* (never None) and moves the cursor to the next index modulo the number of
\* contacts, so that without appends the k-th pop returns the contact at
\* index (k-1) mod n.
C17_CyclicCursorInRange ==
    /\ [](feed.cyclic /\ Len(feed.contacts) >= 1 =>
              feed.next_contact_id \in 0..(Len(feed.contacts) - 1))
    /\ [][ (feed.cyclic /\ Len(feed.contacts) >= 1 /\ ret'.op = "pop") =>
              /\ ret'.res = [out |-> "contact", i |-> feed.next_contact_id]
              /\ feed'.next_contact_id =
                     (feed.next_contact_id + 1) % Len(feed.contacts)
              /\ feed'.contacts = feed.contacts ]_vars

\* a cyclic feed of three contacts whose last contact was popped, the cursor
\* being back on the first
C17_WrappedAround ==
    /\ feed.cyclic
    /\ Len(feed.contacts) = 3
    /\ ret.op = "pop"
    /\ ret.res = [out |-> "contact", i |-> 2]
    /\ feed.next_contact_id = 0

====
